---- MODULE Spec2Model ----
(***************************************************************************)
(* recovery-persist: pulls the files saved in the pmsg buffer into         *)
(* /data/misc/recovery/, rotating the logs in, and re-seeds last_kmsg     *)
(* from the console buffer.  The model follows recovery-persist.cpp.       *)
(*                                                                         *)
(* A file is a record [exists, data]; a file that access(R_OK) rejects is  *)
(* "not there".  The file system fs maps the well-known paths to files.    *)
(***************************************************************************)
EXTENDS Integers, Sequences, FiniteSets, TLC

\* ---------------------------------------------------------------- bounds
\* Most records the record source delivers in one run.
MaxRecords == 2
\* Longest file handed to the comparator on its own.
MaxFileLen == 4
\* Comparator chunk (buf1.size(), 16 KiB in the source), scaled down so that
\* files span zero, one and several chunks within MaxFileLen.
BufSize == 2

\* Byte values used in file contents.
Bytes == {0, 1}

\* ------------------------------------------------------------ file paths
LAST_LOG_FILE == "/data/misc/recovery/last_log"
LAST_PMSG_FILE == "/sys/fs/pstore/pmsg-ramoops-0"
LAST_KMSG_FILE == "/data/misc/recovery/last_kmsg"
LAST_CONSOLE_FILE == "/sys/fs/pstore/console-ramoops-0"
ALT_LAST_CONSOLE_FILE == "/sys/fs/pstore/console-ramoops"
\* Named in main(); "the last_install file has been copied to
\* /data/misc/recovery from pmsg".
LAST_INSTALL_FILE == "/data/misc/recovery/last_install"
LAST_INSTALL_FILE_IN_CACHE == "/cache/recovery/last_install"
\* Backup slots the rotation primitive moves the two logs into.
LAST_LOG_BACKUP == "/data/misc/recovery/last_log.1"
LAST_KMSG_BACKUP == "/data/misc/recovery/last_kmsg.1"

Paths ==
  { LAST_LOG_FILE, LAST_PMSG_FILE, LAST_KMSG_FILE, LAST_CONSOLE_FILE,
    ALT_LAST_CONSOLE_FILE, LAST_INSTALL_FILE, LAST_INSTALL_FILE_IN_CACHE,
    LAST_LOG_BACKUP, LAST_KMSG_BACKUP }

\* ----------------------------------------------------------------- files
NoFile == [exists |-> FALSE, data |-> <<>>]

File(d) == [exists |-> TRUE, data |-> d]

\* All byte strings of length at most n.
SeqsUpTo(n) == UNION { [1..k -> Bytes] : k \in 0..n }

\* Contents used for the files and records of a run.
RunContents == { <<>>, <<1>>, <<0, 1>> }

\* What a destination of the dedup writer holds before the first run.
DestFiles == { NoFile, File(<<0, 1>>) }

\* What a console source, and last_kmsg before the first run, holds.
ConsoleFiles == { NoFile, File(<<>>), File(<<1>>) }

\* Names the record source delivers below its "recovery/" prefix filter.
FileNames == { "recovery/last_log", "recovery/last_install" }

Records == [ name : FileNames, buf : RunContents ]

RecordSeqs == UNION { [1..k -> Records] : k \in 0..MaxRecords }

\* Argument lists main is started with: none, the flag, something else.
Argvs == { <<>>, <<"--force-persist">>, <<"--force-persist-all">> }

\* Outcomes of android::base::WriteStringToFile: written; open() failed and
\* the file is as it was; the write failed and the file was unlinked.
WriteOutcomes == { "ok", "open_failed", "write_failed" }

VARIABLES
  fs,            \* the file system: path -> file
  records,       \* what the pmsg buffer holds: the records of every run
  has_cache,     \* main: " /cache " is in /proc/mounts
  argv,          \* main: the arguments after the program name
  pc,            \* main's position
  idx,           \* next record the record source delivers
  rotated,       \* static bool rotated of recovery-persist.cpp
  logs_rotated,  \* the rotation primitive's own once-per-run flag
  run,           \* which invocation of the tool: "first" or "second"
  ret,           \* value the last logsave call returned
  last_write,    \* outcome of the write of the last logsave call, or "none"
  rotations,     \* rotations performed in this run
  rotate_calls,  \* calls of the rotation primitive in this run
  differs,       \* records of this run that differed from their destination
  writes,        \* WriteStringToFile calls of this run
  copies,        \* copy_file calls of this run
  compares,      \* compare_file calls of this run
  failed,        \* a WriteStringToFile call of this run has failed
  exit_code,     \* what main returned, -1 while it runs
  cmp_pc,        \* comparator harness: what has been computed
  cmp_ab,        \* comparator harness: compare_file(A, B)
  cmp_ba,        \* comparator harness: compare_file(B, A)
  lp_pc,         \* compare_file step by step: position
  lp_off1,       \* compare_file step by step: file offset of fd1
  lp_off2,       \* compare_file step by step: file offset of fd2
  lp_remain,     \* compare_file step by step: bytes_remain
  lp_result      \* compare_file step by step: the value returned

vars ==
  << fs, records, has_cache, argv, pc, idx, rotated, logs_rotated,
     run, ret, last_write, rotations, rotate_calls, differs, writes, copies,
     compares, failed, exit_code, cmp_pc, cmp_ab, cmp_ba, lp_pc, lp_off1,
     lp_off2, lp_remain, lp_result >>

loop_vars == << lp_pc, lp_off1, lp_off2, lp_remain, lp_result >>

cmp_vars == << cmp_pc, cmp_ab, cmp_ba, loop_vars >>

counters == << rotations, rotate_calls, differs, writes, copies, compares >>

inputs == << records, has_cache, argv >>

Min(a, b) == IF a <= b THEN a ELSE b

\* ------------------------------------------------------- file primitives
\* access(filename, R_OK) == 0
file_exists(f, filename) == f[filename].exists

\* stat(): st_size, or 0 when stat fails
file_size(f, path) == IF f[path].exists THEN Len(f[path].data) ELSE 0

\* android::base::ReadFileToString: the content, empty when the file cannot
\* be read.
ReadFileToString(f, path) == IF f[path].exists THEN f[path].data ELSE <<>>

\* android::base::WriteStringToFile: the file system afterwards.
WriteStringToFile(f, path, content, outcome) ==
  CASE outcome = "ok" -> [f EXCEPT ![path] = File(content)]
    [] outcome = "open_failed" -> f
    [] outcome = "write_failed" -> [f EXCEPT ![path] = NoFile]

\* The bool WriteStringToFile returns, as logsave's ssize_t return value.
WriteResult(outcome) == IF outcome = "ok" THEN 1 ELSE 0

\* rename(): moves the file when it is there, fails silently otherwise.
Rename(f, from, to) ==
  IF f[from].exists THEN [f EXCEPT ![to] = f[from], ![from] = NoFile] ELSE f

\* copy_file: destination truncated, then filled from the source if it opens.
copy_file(f, source, destination) ==
  [f EXCEPT ![destination] = File(ReadFileToString(f, source))]

\* unlink() guarded by file_exists()
Unlink(f, path) == [f EXCEPT ![path] = NoFile]

\* ----------------------------------------------------- rotation primitive
\* rotate_logs(last_log, last_kmsg): once per run, moves each log into its
\* backup slot.  done is the primitive's own flag; performed tells whether
\* this call did the rotation.
rotate_logs(f, done) ==
  IF done
  THEN [fs |-> f, done |-> TRUE, performed |-> 0]
  ELSE [fs |-> Rename(Rename(f, LAST_LOG_FILE, LAST_LOG_BACKUP),
                      LAST_KMSG_FILE, LAST_KMSG_BACKUP),
        done |-> TRUE, performed |-> 1]

\* --------------------------------------------------------- file comparator
\* ReadFully(fd, buf, n) from offset off: fails at end of file.
ReadFully(data, off, n) == off + n <= Len(data)

\* The streaming loop of compare_file.  bytes_remain is passed on as it is:
\* the loop never decreases it.
RECURSIVE compare_loop(_, _, _, _, _)
compare_loop(data1, data2, off1, off2, bytes_remain) ==
  IF bytes_remain > 0
  THEN LET bytes_to_read == Min(bytes_remain, BufSize)
       IN IF ~ReadFully(data1, off1, bytes_to_read) THEN FALSE
          ELSE IF ~ReadFully(data2, off2, bytes_to_read) THEN FALSE
          ELSE IF SubSeq(data1, off1 + 1, off1 + bytes_to_read)
                  # SubSeq(data2, off2 + 1, off2 + bytes_to_read) THEN FALSE
          ELSE compare_loop(data1, data2, off1 + bytes_to_read,
                            off2 + bytes_to_read, bytes_remain)
  ELSE TRUE

\* Variant: the second file is not checked for existence.
compare_file_one_sided(f, file1, file2) ==
  IF ~file_exists(f, file1) THEN FALSE
  ELSE IF file_size(f, file1) # file_size(f, file2) THEN FALSE
  ELSE compare_loop(f[file1].data, f[file2].data, 0, 0, file_size(f, file1))

compare_file(f, file1, file2) ==
  IF ~file_exists(f, file1) \/ ~file_exists(f, file2) THEN FALSE
  ELSE IF file_size(f, file1) # file_size(f, file2) THEN FALSE
  ELSE compare_loop(f[file1].data, f[file2].data, 0, 0, file_size(f, file1))

\* ------------------------------------------------------------ dedup writer
\* "/data/misc/" + filename
Destination(filename) == "/data/misc/" \o filename

\* Variant: the destination is written first and the logs rotated afterwards.
logsave_overwrite_write_first(destination, buf, outcome) ==
  LET r == rotate_logs(WriteStringToFile(fs, destination, buf, outcome),
                       logs_rotated)
  IN /\ fs' = r.fs
     /\ logs_rotated' = r.done
     /\ rotated' = TRUE
     /\ ret' = WriteResult(outcome)
     /\ last_write' = outcome
     /\ rotate_calls' = rotate_calls + 1
     /\ rotations' = rotations + r.performed
     /\ writes' = writes + 1
     /\ UNCHANGED << copies, compares >>

\* The overwrite path of logsave: rotate, set rotated, write.
logsave_overwrite(destination, buf, outcome) ==
  LET r == rotate_logs(fs, logs_rotated)
  IN /\ fs' = WriteStringToFile(r.fs, destination, buf, outcome)
     /\ logs_rotated' = r.done
     /\ rotated' = TRUE
     /\ ret' = WriteResult(outcome)
     /\ last_write' = outcome
     /\ rotate_calls' = rotate_calls + 1
     /\ rotations' = rotations + r.performed
     /\ writes' = writes + 1
     /\ UNCHANGED << copies, compares >>

\* Variant: the log is rotated only when the destination is already there.
logsave_rotate_existing(filename, buf, outcome) ==
  LET destination == Destination(filename)
      content == ReadFileToString(fs, destination)
  IN IF buf = content
     THEN /\ ret' = Len(buf)
          /\ last_write' = "none"
          /\ UNCHANGED << fs, rotated, logs_rotated, rotations, rotate_calls,
                          writes, copies, compares >>
     ELSE IF file_exists(fs, destination)
     THEN logsave_overwrite(destination, buf, outcome)
     ELSE /\ fs' = WriteStringToFile(fs, destination, buf, outcome)
          /\ rotated' = TRUE
          /\ ret' = WriteResult(outcome)
          /\ last_write' = outcome
          /\ writes' = writes + 1
          /\ UNCHANGED << logs_rotated, rotations, rotate_calls, copies,
                          compares >>

\* Variant: no comparison with the stored content, every record is written.
logsave_no_dedup(filename, buf, outcome) ==
  logsave_overwrite(Destination(filename), buf, outcome)

\* Variant: a destination that is missing never counts as equal.
logsave_missing_differs(filename, buf, outcome) ==
  LET destination == Destination(filename)
      content == ReadFileToString(fs, destination)
  IN IF file_exists(fs, destination) /\ buf = content
     THEN /\ ret' = Len(buf)
          /\ last_write' = "none"
          /\ UNCHANGED << fs, rotated, logs_rotated, rotations, rotate_calls,
                          writes, copies, compares >>
     ELSE logsave_overwrite(destination, buf, outcome)

\* Variant: the no-op path clears the rotated flag.
logsave_clears_rotated(filename, buf, outcome) ==
  LET destination == Destination(filename)
      content == ReadFileToString(fs, destination)
  IN IF buf = content
     THEN /\ ret' = Len(buf)
          /\ last_write' = "none"
          /\ rotated' = FALSE
          /\ UNCHANGED << fs, logs_rotated, rotations, rotate_calls, writes,
                          copies, compares >>
     ELSE logsave_overwrite(destination, buf, outcome)

\* Variant: the no-op path returns 0 instead of the length.
logsave_noop_returns_zero(filename, buf, outcome) ==
  LET destination == Destination(filename)
      content == ReadFileToString(fs, destination)
  IN IF buf = content
     THEN /\ ret' = 0
          /\ last_write' = "none"
          /\ UNCHANGED << fs, rotated, logs_rotated, rotations, rotate_calls,
                          writes, copies, compares >>
     ELSE logsave_overwrite(destination, buf, outcome)

logsave(filename, buf, outcome) ==
  LET destination == Destination(filename)
      content == ReadFileToString(fs, destination)
  IN IF buf = content
     THEN /\ ret' = Len(buf)
          /\ last_write' = "none"
          /\ UNCHANGED << fs, rotated, logs_rotated, rotations, rotate_calls,
                          writes, copies, compares >>
     ELSE logsave_overwrite(destination, buf, outcome)

\* ------------------------------------------------------ console reconciler
\* The comparisons of rotate_last_kmsg and the rotation they lead to.
reconcile_compare ==
  LET same1 == compare_file(fs, LAST_KMSG_FILE, LAST_CONSOLE_FILE)
      same2 == compare_file(fs, LAST_KMSG_FILE, ALT_LAST_CONSOLE_FILE)
      r == rotate_logs(fs, logs_rotated)
  IN /\ compares' = compares + (IF same1 THEN 1 ELSE 2)
     /\ IF ~same1 /\ ~same2
        THEN /\ fs' = r.fs
             /\ logs_rotated' = r.done
             /\ rotated' = TRUE
             /\ rotate_calls' = rotate_calls + 1
             /\ rotations' = rotations + r.performed
        ELSE UNCHANGED << fs, rotated, logs_rotated, rotate_calls, rotations >>
     /\ UNCHANGED << writes, copies >>

reconcile_skip ==
  UNCHANGED << fs, rotated, logs_rotated, rotations, rotate_calls, writes,
               copies, compares >>

\* Variant: returns unless both console sources exist.
rotate_last_kmsg_needs_both ==
  IF rotated THEN reconcile_skip
  ELSE IF \/ ~file_exists(fs, LAST_CONSOLE_FILE)
          \/ ~file_exists(fs, ALT_LAST_CONSOLE_FILE)
  THEN reconcile_skip
  ELSE reconcile_compare

\* Variant: the rotated flag is not consulted.
rotate_last_kmsg_no_flag ==
  IF /\ ~file_exists(fs, LAST_CONSOLE_FILE)
     /\ ~file_exists(fs, ALT_LAST_CONSOLE_FILE)
  THEN reconcile_skip
  ELSE reconcile_compare

\* Variant: the console sources are compared without checking they exist.
rotate_last_kmsg_no_source_check ==
  IF rotated THEN reconcile_skip ELSE reconcile_compare

rotate_last_kmsg ==
  IF rotated THEN reconcile_skip
  ELSE IF /\ ~file_exists(fs, LAST_CONSOLE_FILE)
          /\ ~file_exists(fs, ALT_LAST_CONSOLE_FILE)
  THEN reconcile_skip
  ELSE reconcile_compare

\* Variant: any argument that begins with --force-persist is accepted.
force_persist_prefix_match ==
  Len(argv) >= 1 /\ argv[1] \in { "--force-persist", "--force-persist-all" }

\* ------------------------------------------------------------------- main
\* !((argc <= 1) || !argv[1] || strcmp(argv[1], "--force-persist"))
force_persist == Len(argv) >= 1 /\ argv[1] = "--force-persist"

\* Variant: the record source is called without looking for the pmsg file.
MainStart_no_pmsg_check ==
  /\ pc = "start"
  /\ fs' = IF has_cache THEN Unlink(fs, LAST_INSTALL_FILE_IN_CACHE) ELSE fs
  /\ pc' = IF has_cache /\ ~force_persist THEN "done" ELSE "drain"
  /\ exit_code' = IF pc' = "done" THEN 0 ELSE exit_code
  /\ UNCHANGED << inputs, idx, rotated, logs_rotated, run, ret, last_write,
                  counters, failed, cmp_vars >>

\* main up to the call of the record source: the /cache gate and the pmsg
\* check.
MainStart ==
  /\ pc = "start"
  /\ fs' = IF has_cache THEN Unlink(fs, LAST_INSTALL_FILE_IN_CACHE) ELSE fs
  /\ pc' = IF has_cache /\ ~force_persist THEN "done"
           ELSE IF ~file_exists(fs, LAST_PMSG_FILE) THEN "done"
           ELSE "drain"
  /\ exit_code' = IF pc' = "done" THEN 0 ELSE exit_code
  /\ UNCHANGED << inputs, idx, rotated, logs_rotated, run, ret, last_write,
                  counters, failed, cmp_vars >>

\* The record source calls logsave with its next record.
Logsave ==
  /\ pc = "drain"
  /\ idx <= Len(records)
  /\ \E outcome \in WriteOutcomes :
       logsave(records[idx].name, records[idx].buf, outcome)
  /\ differs' = differs +
       (IF records[idx].buf
             # ReadFileToString(fs, Destination(records[idx].name))
        THEN 1 ELSE 0)
  /\ failed' = (failed \/ last_write' \in { "open_failed", "write_failed" })
  /\ idx' = idx + 1
  /\ UNCHANGED << inputs, pc, run, exit_code, cmp_vars >>

\* The record source returns; without /cache the last_install file is removed.
AfterDrain ==
  /\ pc = "drain"
  /\ idx > Len(records)
  /\ fs' = IF ~has_cache THEN Unlink(fs, LAST_INSTALL_FILE) ELSE fs
  /\ pc' = "reconcile"
  /\ UNCHANGED << inputs, idx, rotated, logs_rotated, run, ret, last_write,
                  counters, failed, exit_code, cmp_vars >>

Reconcile ==
  /\ pc = "reconcile"
  /\ rotate_last_kmsg
  /\ pc' = "copy"
  /\ UNCHANGED << inputs, idx, run, ret, last_write, differs, failed,
                  exit_code, cmp_vars >>

\* Variant: the console log is copied whether or not a rotation occurred.
CopyConsole_ungated ==
  /\ pc = "copy"
  /\ IF file_exists(fs, LAST_CONSOLE_FILE)
     THEN /\ fs' = copy_file(fs, LAST_CONSOLE_FILE, LAST_KMSG_FILE)
          /\ copies' = copies + 1
     ELSE IF file_exists(fs, ALT_LAST_CONSOLE_FILE)
     THEN /\ fs' = copy_file(fs, ALT_LAST_CONSOLE_FILE, LAST_KMSG_FILE)
          /\ copies' = copies + 1
     ELSE UNCHANGED << fs, copies >>
  /\ pc' = "done"
  /\ exit_code' = 0
  /\ UNCHANGED << inputs, idx, rotated, logs_rotated, run, ret, last_write,
                  rotations, rotate_calls, differs, writes, compares, failed,
                  cmp_vars >>

\* Variant: the alternate console source is preferred.
CopyConsole_alternate_first ==
  /\ pc = "copy"
  /\ IF rotated /\ file_exists(fs, ALT_LAST_CONSOLE_FILE)
     THEN /\ fs' = copy_file(fs, ALT_LAST_CONSOLE_FILE, LAST_KMSG_FILE)
          /\ copies' = copies + 1
     ELSE IF rotated /\ file_exists(fs, LAST_CONSOLE_FILE)
     THEN /\ fs' = copy_file(fs, LAST_CONSOLE_FILE, LAST_KMSG_FILE)
          /\ copies' = copies + 1
     ELSE UNCHANGED << fs, copies >>
  /\ pc' = "done"
  /\ exit_code' = 0
  /\ UNCHANGED << inputs, idx, rotated, logs_rotated, run, ret, last_write,
                  rotations, rotate_calls, differs, writes, compares, failed,
                  cmp_vars >>

\* "Is there a last console log too?"
CopyConsole ==
  /\ pc = "copy"
  /\ IF rotated /\ file_exists(fs, LAST_CONSOLE_FILE)
     THEN /\ fs' = copy_file(fs, LAST_CONSOLE_FILE, LAST_KMSG_FILE)
          /\ copies' = copies + 1
     ELSE IF rotated /\ file_exists(fs, ALT_LAST_CONSOLE_FILE)
     THEN /\ fs' = copy_file(fs, ALT_LAST_CONSOLE_FILE, LAST_KMSG_FILE)
          /\ copies' = copies + 1
     ELSE UNCHANGED << fs, copies >>
  /\ pc' = "done"
  /\ exit_code' = 0
  /\ UNCHANGED << inputs, idx, rotated, logs_rotated, run, ret, last_write,
                  rotations, rotate_calls, differs, writes, compares, failed,
                  cmp_vars >>

\* The tool is invoked again: a new process, the same files and inputs.
NextRun ==
  /\ pc = "done"
  /\ run = "first"
  /\ run' = "second"
  /\ pc' = "start"
  /\ idx' = 1
  /\ rotated' = FALSE
  /\ logs_rotated' = FALSE
  /\ ret' = 0
  /\ last_write' = "none"
  /\ rotations' = 0
  /\ rotate_calls' = 0
  /\ differs' = 0
  /\ writes' = 0
  /\ copies' = 0
  /\ compares' = 0
  /\ failed' = FALSE
  /\ exit_code' = -1
  /\ UNCHANGED << fs, inputs, cmp_vars >>

\* The process state right after construction.
FreshProcess ==
  /\ idx = 1
  /\ rotated = FALSE
  /\ logs_rotated = FALSE
  /\ run = "first"
  /\ ret = 0
  /\ last_write = "none"
  /\ rotations = 0
  /\ rotate_calls = 0
  /\ differs = 0
  /\ writes = 0
  /\ copies = 0
  /\ compares = 0
  /\ failed = FALSE
  /\ exit_code = -1

\* The step-by-step comparator is not running.
LoopOff ==
  /\ lp_pc = "off"
  /\ lp_off1 = 0
  /\ lp_off2 = 0
  /\ lp_remain = 0
  /\ lp_result = FALSE

Init ==
  /\ has_cache \in BOOLEAN
  /\ argv \in (IF has_cache THEN Argvs ELSE { <<>>, <<"--force-persist">> })
  /\ records \in RecordSeqs
  /\ \E log \in DestFiles, install \in DestFiles, kmsg \in ConsoleFiles,
        console \in ConsoleFiles, alt \in ConsoleFiles, pmsg \in BOOLEAN :
       /\ ~pmsg => records = <<>>
       /\ fs = [ p \in Paths |->
                   CASE p = LAST_LOG_FILE -> log
                     [] p = LAST_INSTALL_FILE -> install
                     [] p = LAST_KMSG_FILE -> kmsg
                     [] p = LAST_CONSOLE_FILE -> console
                     [] p = ALT_LAST_CONSOLE_FILE -> alt
                     [] p = LAST_PMSG_FILE -> IF pmsg THEN File(<<>>) ELSE NoFile
                     [] p = LAST_INSTALL_FILE_IN_CACHE ->
                          IF has_cache THEN File(<<>>) ELSE NoFile
                     [] OTHER -> NoFile ]
  /\ pc = "start"
  /\ FreshProcess
  /\ cmp_pc = "off"
  /\ cmp_ab = FALSE
  /\ cmp_ba = FALSE
  /\ LoopOff

Next ==
  \/ MainStart
  \/ Logsave
  \/ AfterDrain
  \/ Reconcile
  \/ CopyConsole
  \/ NextRun

Spec == Init /\ [][Next]_vars

\* ------------------------------------------------- the comparator on its own
\* Files the comparator is applied to: missing, or any content up to
\* MaxFileLen bytes.
CmpFiles == { NoFile } \cup { File(d) : d \in SeqsUpTo(MaxFileLen) }

\* compare_file(A, B) with A = last_kmsg and B = the console source.
CompareAB ==
  /\ cmp_pc = "idle"
  /\ cmp_ab' = compare_file(fs, LAST_KMSG_FILE, LAST_CONSOLE_FILE)
  /\ cmp_pc' = "ab"
  /\ UNCHANGED << fs, inputs, pc, idx, rotated, logs_rotated, run, ret,
                  last_write, counters, failed, exit_code, cmp_ba,
                  loop_vars >>

\* compare_file(B, A)
CompareBA ==
  /\ cmp_pc = "ab"
  /\ cmp_ba' = compare_file(fs, LAST_CONSOLE_FILE, LAST_KMSG_FILE)
  /\ cmp_pc' = "both"
  /\ UNCHANGED << fs, inputs, pc, idx, rotated, logs_rotated, run, ret,
                  last_write, counters, failed, exit_code, cmp_ab,
                  loop_vars >>

InitCmp ==
  /\ \E a \in CmpFiles, b \in CmpFiles :
       fs = [ p \in Paths |->
                CASE p = LAST_KMSG_FILE -> a
                  [] p = LAST_CONSOLE_FILE -> b
                  [] OTHER -> NoFile ]
  /\ records = <<>>
  /\ has_cache = FALSE
  /\ argv = <<>>
  /\ pc = "compare"
  /\ FreshProcess
  /\ cmp_pc = "idle"
  /\ cmp_ab = FALSE
  /\ cmp_ba = FALSE
  /\ LoopOff

NextCmp ==
  \/ CompareAB
  \/ CompareBA

SpecCmp == InitCmp /\ [][NextCmp]_vars

\* ------------------------------------------- the comparator step by step
\* compare_file(last_kmsg, console) one statement group at a time: the checks
\* before the loop, then one loop iteration per step.

\* Everything the step-by-step comparator leaves alone.
loop_frame ==
  << fs, inputs, pc, idx, rotated, logs_rotated, run, ret, last_write,
     counters, failed, exit_code, cmp_pc, cmp_ab, cmp_ba >>

\* Variant: the reads do not advance the file offsets.
CompareIterate_no_advance ==
  /\ lp_pc = "loop"
  /\ IF lp_remain > 0
     THEN LET bytes_to_read == Min(lp_remain, BufSize)
              data1 == fs[LAST_KMSG_FILE].data
              data2 == fs[LAST_CONSOLE_FILE].data
          IN IF \/ ~ReadFully(data1, lp_off1, bytes_to_read)
                \/ ~ReadFully(data2, lp_off2, bytes_to_read)
                \/ SubSeq(data1, lp_off1 + 1, lp_off1 + bytes_to_read)
                     # SubSeq(data2, lp_off2 + 1, lp_off2 + bytes_to_read)
             THEN /\ lp_pc' = "returned"
                  /\ lp_result' = FALSE
                  /\ UNCHANGED << lp_off1, lp_off2, lp_remain >>
             ELSE UNCHANGED << lp_pc, lp_result, lp_off1, lp_off2, lp_remain >>
     ELSE /\ lp_pc' = "returned"
          /\ lp_result' = TRUE
          /\ UNCHANGED << lp_off1, lp_off2, lp_remain >>
  /\ UNCHANGED loop_frame

\* The existence and size checks, the two open() calls and bytes_remain.
CompareEnter ==
  /\ lp_pc = "entry"
  /\ IF \/ ~file_exists(fs, LAST_KMSG_FILE)
        \/ ~file_exists(fs, LAST_CONSOLE_FILE)
        \/ file_size(fs, LAST_KMSG_FILE) # file_size(fs, LAST_CONSOLE_FILE)
     THEN /\ lp_pc' = "returned"
          /\ lp_result' = FALSE
          /\ UNCHANGED << lp_off1, lp_off2, lp_remain >>
     ELSE /\ lp_pc' = "loop"
          /\ lp_off1' = 0
          /\ lp_off2' = 0
          /\ lp_remain' = file_size(fs, LAST_KMSG_FILE)
          /\ UNCHANGED lp_result
  /\ UNCHANGED loop_frame

\* One test of while (bytes_remain > 0) and one pass through its body, or the
\* return true after it.  bytes_remain keeps its value.
CompareIterate ==
  /\ lp_pc = "loop"
  /\ IF lp_remain > 0
     THEN LET bytes_to_read == Min(lp_remain, BufSize)
              data1 == fs[LAST_KMSG_FILE].data
              data2 == fs[LAST_CONSOLE_FILE].data
          IN IF \/ ~ReadFully(data1, lp_off1, bytes_to_read)
                \/ ~ReadFully(data2, lp_off2, bytes_to_read)
                \/ SubSeq(data1, lp_off1 + 1, lp_off1 + bytes_to_read)
                     # SubSeq(data2, lp_off2 + 1, lp_off2 + bytes_to_read)
             THEN /\ lp_pc' = "returned"
                  /\ lp_result' = FALSE
                  /\ UNCHANGED << lp_off1, lp_off2, lp_remain >>
             ELSE /\ lp_off1' = lp_off1 + bytes_to_read
                  /\ lp_off2' = lp_off2 + bytes_to_read
                  /\ UNCHANGED << lp_pc, lp_result, lp_remain >>
     ELSE /\ lp_pc' = "returned"
          /\ lp_result' = TRUE
          /\ UNCHANGED << lp_off1, lp_off2, lp_remain >>
  /\ UNCHANGED loop_frame

InitLoop ==
  /\ \E a \in CmpFiles, b \in CmpFiles :
       fs = [ p \in Paths |->
                CASE p = LAST_KMSG_FILE -> a
                  [] p = LAST_CONSOLE_FILE -> b
                  [] OTHER -> NoFile ]
  /\ records = <<>>
  /\ has_cache = FALSE
  /\ argv = <<>>
  /\ pc = "compare"
  /\ FreshProcess
  /\ cmp_pc = "off"
  /\ cmp_ab = FALSE
  /\ cmp_ba = FALSE
  /\ lp_pc = "entry"
  /\ lp_off1 = 0
  /\ lp_off2 = 0
  /\ lp_remain = 0
  /\ lp_result = FALSE

NextLoop ==
  \/ CompareEnter
  \/ CompareIterate

\* The process is single-threaded and runs on: a statement that can be
\* executed is executed.
SpecLoop == InitLoop /\ [][NextLoop]_vars /\ WF_vars(NextLoop)

\* ------------------------------------------------------------- properties
\* Content stored at the destination of a record, a missing file counting as
\* empty content.
Stored(f, name) ==
  IF f["/data/misc/" \o name].exists THEN f["/data/misc/" \o name].data
  ELSE <<>>

\* Both files are there and hold the same bytes.
SameBytes(f, a, b) == f[a].exists /\ f[b].exists /\ f[a].data = f[b].data

\* This step is a call of logsave with records[idx].
LogsaveStep == pc = "drain" /\ idx <= Len(records) /\ idx' = idx + 1

\* The record of this logsave call differs from the content at its destination.
RecordDiffers == records[idx].buf # Stored(fs, records[idx].name)

\* This step is the call of rotate_last_kmsg.
ReconcileStep == pc = "reconcile" /\ pc' = "copy"

\* C1: in a run where at least one record differed from its destination,
\* exactly one rotation has been performed, however many records differed;
\* a rotation request after the first performs no rotation and leaves the
\* backup slots as they are.
C1_AtMostOneRotation ==
  [][ /\ rotations' <= 1
      /\ differs' >= 1 => rotations' = 1
      /\ (rotate_calls >= 1 /\ rotate_calls' > rotate_calls) =>
           /\ rotations' = rotations
           /\ fs'[LAST_LOG_BACKUP] = fs[LAST_LOG_BACKUP]
           /\ fs'[LAST_KMSG_BACKUP] = fs[LAST_KMSG_BACKUP] ]_vars

\* C1 witness: two records of one run differed, one rotation was performed.
C1_Witness == differs >= 2 /\ rotate_calls >= 2 /\ rotations = 1

C3_SecondRunIdle ==
  (run = "second" /\ differs = 0) =>
     rotations = 0 /\ writes = 0 /\ copies = 0

\* C4: a logsave call whose record equals the stored content returns the
\* content length, performs no rotation, changes no file and leaves rotated
\* as it was.
C4_DedupNoop ==
  [][ (LogsaveStep /\ ~RecordDiffers) =>
        /\ ret' = Len(records[idx].buf)
        /\ fs' = fs
        /\ rotated' = rotated
        /\ rotations' = rotations
        /\ rotate_calls' = rotate_calls
        /\ writes' = writes ]_vars

\* C4 witness: the first record was empty and its destination missing; the
\* call returned 0 and nothing was rotated or written.
C4_Witness ==
  /\ pc = "drain"
  /\ idx = 2
  /\ records[1].buf = <<>>
  /\ ~fs[Destination(records[1].name)].exists
  /\ ret = 0
  /\ ~rotated
  /\ writes = 0

\* C5 as stated: a logsave call whose record differs returns the number of
\* bytes written when the write succeeds and a negative value when it fails.
C5_OverwriteReturn ==
  [][ (LogsaveStep /\ RecordDiffers) =>
        /\ last_write' = "ok" => ret' = Len(records[idx].buf)
        /\ last_write' # "ok" => ret' < 0 ]_vars

\* C6 as stated: a reconciler call with rotated false and last_kmsg
\* byte-identical to an existing console source performs no rotation and
\* leaves rotated false.
C6_MatchNoRotation ==
  [][ ( /\ ReconcileStep
        /\ ~rotated
        /\ \/ SameBytes(fs, LAST_KMSG_FILE, LAST_CONSOLE_FILE)
           \/ SameBytes(fs, LAST_KMSG_FILE, ALT_LAST_CONSOLE_FILE) )
      => rotations' = rotations /\ ~rotated' /\ fs' = fs ]_vars

\* C7: a reconciler call with rotated false, a console source present and
\* last_kmsg missing or different from both console sources rotates and sets
\* rotated.
C7_MismatchRotates ==
  [][ ( /\ ReconcileStep
        /\ ~rotated
        /\ fs[LAST_CONSOLE_FILE].exists \/ fs[ALT_LAST_CONSOLE_FILE].exists
        /\ ~SameBytes(fs, LAST_KMSG_FILE, LAST_CONSOLE_FILE)
        /\ ~SameBytes(fs, LAST_KMSG_FILE, ALT_LAST_CONSOLE_FILE) )
      => /\ rotated'
         /\ rotations' = rotations + 1
         /\ ~fs'[LAST_KMSG_FILE].exists
         /\ fs[LAST_KMSG_FILE].exists =>
              fs'[LAST_KMSG_BACKUP] = fs[LAST_KMSG_FILE] ]_vars

\* C7 witness: no record differed, only the alternate console source exists,
\* and the reconciler moved a last_kmsg that differed from it to the backup
\* slot.
C7_Witness ==
  /\ pc = "copy"
  /\ run = "first"
  /\ differs = 0
  /\ rotated
  /\ rotations = 1
  /\ ~fs[LAST_CONSOLE_FILE].exists
  /\ fs[ALT_LAST_CONSOLE_FILE].exists
  /\ fs[LAST_KMSG_BACKUP].exists
  /\ fs[LAST_KMSG_BACKUP].data # fs[ALT_LAST_CONSOLE_FILE].data

\* C8: a reconciler call with rotated already true compares no files, performs
\* no rotation, changes no file and leaves rotated true.
C8_ReconcilerSkip ==
  [][ (ReconcileStep /\ rotated) =>
        /\ compares' = compares
        /\ fs' = fs
        /\ rotations' = rotations
        /\ rotate_calls' = rotate_calls
        /\ rotated' ]_vars

\* C8 witness: a record rotated the logs, a console source exists, and the
\* reconciler has run without comparing.
C8_Witness ==
  /\ pc = "copy"
  /\ differs >= 1
  /\ rotated
  /\ fs[LAST_CONSOLE_FILE].exists
  /\ compares = 0

\* C9 as stated: compare_file returns true exactly when both files are
\* readable and hold the same bytes over their whole length.
C9_ComparatorCorrect ==
  cmp_pc \in { "ab", "both" } =>
    cmp_ab = SameBytes(fs, LAST_KMSG_FILE, LAST_CONSOLE_FILE)

\* C10: compare_file(A, B) equals compare_file(B, A) for every pair of files.
C10_ComparatorSymmetry == cmp_pc = "both" => cmp_ab = cmp_ba

\* C10 witness: both orders were computed for an empty file and a missing
\* one, which stat() reports with the same size.
C10_Witness ==
  /\ cmp_pc = "both"
  /\ fs[LAST_KMSG_FILE].exists
  /\ ~fs[LAST_CONSOLE_FILE].exists
  /\ file_size(fs, LAST_KMSG_FILE) = file_size(fs, LAST_CONSOLE_FILE)
  /\ ~cmp_ab

\* C11: rotated is false when a run starts, and within a run no step takes it
\* from true back to false.
C11_RotatedMonotone ==
  /\ [](pc = "start" => ~rotated)
  /\ [][ (rotated /\ run' = run) => rotated' ]_vars

\* C11 witness: the first record set rotated, a second logsave call, the
\* reconciler and the copy step followed, and rotated is still true.
C11_Witness ==
  /\ pc = "done"
  /\ exit_code = 0
  /\ idx = 3
  /\ differs = 1
  /\ records[1].buf # records[2].buf
  /\ last_write = "none"
  /\ rotated

\* This step is main's copy of the console log, after the reconciler.
CopyStep == pc = "copy" /\ pc' = "done"

\* The console source main copies from: the primary when it exists.
ConsoleSource(f) ==
  IF f[LAST_CONSOLE_FILE].exists THEN LAST_CONSOLE_FILE
  ELSE ALT_LAST_CONSOLE_FILE

AllDelivered == pc = "drain" /\ idx > Len(records) /\ ~failed

\* Record i is the last one delivered for its name.
LastForName(i) ==
  \A j \in (i + 1)..Len(records) : records[j].name # records[i].name

\* C13 as stated: once every record has been delivered and every write has
\* succeeded, the destination of each name holds the content of the last
\* record delivered for that name.
C13_Convergence ==
  AllDelivered =>
    \A i \in 1..Len(records) :
      LastForName(i) => Stored(fs, records[i].name) = records[i].buf

\* C14 as stated: in a run whose only record equals the stored content of its
\* destination, the call returns the content length and the whole run
\* performs no rotation and leaves the destination file as it was.
C14_Original ==
  [][ (Len(records) = 1 /\ differs' = 0 /\ pc # "start" /\ run' = run) =>
        /\ rotations' = 0
        /\ fs'[Destination(records[1].name)] = fs[Destination(records[1].name)]
        /\ idx' = 2 => ret' = Len(records[1].buf) ]_vars

\* C14 amended: in such a run the logsave call returns the content length,
\* performs no rotation and changes no file; when neither console source
\* exists the whole run performs no rotation and changes no file of the log
\* directory, except that main removes last_install afterwards when /cache is
\* not mounted.
C14_IdenticalRecord ==
  [][ (Len(records) = 1 /\ differs' = 0 /\ pc # "start" /\ run' = run) =>
        /\ LogsaveStep =>
             ret' = Len(records[1].buf) /\ rotations' = 0 /\ fs' = fs
        /\ (~fs[LAST_CONSOLE_FILE].exists /\ ~fs[ALT_LAST_CONSOLE_FILE].exists)
             => /\ rotations' = 0
                /\ \A p \in Paths \ { LAST_INSTALL_FILE } : fs'[p] = fs[p]
                /\ fs'[LAST_INSTALL_FILE] # fs[LAST_INSTALL_FILE] =>
                     /\ ~has_cache
                     /\ pc = "drain" /\ pc' = "reconcile"
                     /\ ~fs'[LAST_INSTALL_FILE].exists ]_vars

\* C14 witness: the only record equalled last_log, no console source exists,
\* and the run has ended without a rotation, last_log and last_kmsg in place.
C14_Witness ==
  /\ pc = "done"
  /\ Len(records) = 1
  /\ idx = 2
  /\ differs = 0
  /\ rotations = 0
  /\ ret = 2
  /\ records[1] = [name |-> "recovery/last_log", buf |-> <<0, 1>>]
  /\ fs[LAST_LOG_FILE] = File(<<0, 1>>)
  /\ fs[LAST_KMSG_FILE].exists
  /\ ~fs[LAST_CONSOLE_FILE].exists
  /\ ~fs[ALT_LAST_CONSOLE_FILE].exists

LogDir ==
  { LAST_LOG_FILE, LAST_KMSG_FILE, LAST_INSTALL_FILE, LAST_LOG_BACKUP,
    LAST_KMSG_BACKUP }

\* C16: when the pmsg file does not exist, no step of the process changes a
\* file of the log directory, rotates, calls logsave or calls the reconciler,
\* and the process returns 0 straight from the start of main.
C16_NoPmsgIdle ==
  /\ [][ ~fs[LAST_PMSG_FILE].exists =>
           /\ \A p \in LogDir : fs'[p] = fs[p]
           /\ rotations' = 0 /\ rotate_calls' = 0
           /\ writes' = 0 /\ copies' = 0 /\ compares' = 0
           /\ ~LogsaveStep /\ ~ReconcileStep /\ ~CopyStep
           /\ pc = "start" => pc' = "done" /\ exit_code' = 0 ]_vars
  /\ []((~fs[LAST_PMSG_FILE].exists /\ pc = "done") => exit_code = 0)

\* A finished run without pmsg file and without /cache where last_install
\* is still there and last_kmsg still differs from the console source.
C16_Witness ==
  /\ pc = "done" /\ exit_code = 0
  /\ ~fs[LAST_PMSG_FILE].exists
  /\ ~has_cache
  /\ fs[LAST_INSTALL_FILE].exists
  /\ fs[LAST_CONSOLE_FILE] = File(<<1>>)
  /\ fs[LAST_KMSG_FILE] = File(<<>>)
  /\ ~fs[LAST_KMSG_BACKUP].exists

\* --------------------------------------------------------------------- C17
\* C17: when neither console source exists, a call of rotate_last_kmsg
\* changes no file, leaves rotated as it was and neither rotates nor
\* compares, whether last_kmsg exists or not and whatever it holds.
C17_ReconcilerNoSource ==
  [][ (ReconcileStep /\ ~fs[LAST_CONSOLE_FILE].exists
         /\ ~fs[ALT_LAST_CONSOLE_FILE].exists) =>
        /\ fs' = fs
        /\ rotated' = rotated
        /\ logs_rotated' = logs_rotated
        /\ rotations' = rotations
        /\ rotate_calls' = rotate_calls
        /\ compares' = compares ]_vars

\* The reconciler has returned in a run that had not rotated, with no
\* console source and a non-empty last_kmsg.
C17_Witness ==
  /\ pc = "copy"
  /\ ~rotated /\ rotations = 0 /\ compares = 0
  /\ ~fs[LAST_CONSOLE_FILE].exists
  /\ ~fs[ALT_LAST_CONSOLE_FILE].exists
  /\ fs[LAST_KMSG_FILE] = File(<<1>>)
  /\ ~fs[LAST_KMSG_BACKUP].exists

\* --------------------------------------------------------------------- C18
\* C18: a logsave call that rotates does so on a differing record and before
\* it writes: each backup slot receives what its log held before the call
\* (and keeps its old content when that log was missing), so last_log.1 never
\* receives the record being written; the record content is at the
\* destination after the call when the write succeeds.
C18_RotateBeforeWrite ==
  [][ (LogsaveStep /\ rotations' = rotations + 1) =>
        /\ RecordDiffers
        /\ fs'[LAST_LOG_BACKUP] =
             (IF fs[LAST_LOG_FILE].exists THEN fs[LAST_LOG_FILE]
              ELSE fs[LAST_LOG_BACKUP])
        /\ fs'[LAST_KMSG_BACKUP] =
             (IF fs[LAST_KMSG_FILE].exists THEN fs[LAST_KMSG_FILE]
              ELSE fs[LAST_KMSG_BACKUP])
        /\ (Destination(records[idx].name) = LAST_LOG_FILE
              /\ fs[LAST_LOG_FILE].exists)
             => fs'[LAST_LOG_BACKUP] # File(records[idx].buf)
        /\ last_write' = "ok" =>
             fs'[Destination(records[idx].name)] = File(records[idx].buf) ]_vars

\* Right after the first logsave call of a first run: last_log held <<0, 1>>,
\* the record <<1>> was written to it, and last_log.1 holds <<0, 1>>.
C18_Witness ==
  /\ pc = "drain" /\ idx = 2 /\ run = "first"
  /\ records[1] = [name |-> "recovery/last_log", buf |-> <<1>>]
  /\ rotations = 1 /\ writes = 1 /\ last_write = "ok"
  /\ fs[LAST_LOG_BACKUP] = File(<<0, 1>>)
  /\ fs[LAST_LOG_FILE] = File(<<1>>)

\* --------------------------------------------------------------------- C19
\* The first argument is exactly --force-persist.
ForceArg == argv # << >> /\ Head(argv) = "--force-persist"

\* C19: with /cache mounted and a first argument other than exactly
\* --force-persist (or none), main returns from its first step and no step
\* calls logsave or the reconciler, rotates, writes, copies or changes a file
\* of the log directory; otherwise main's first step goes on to the pmsg
\* check: to the record source when the pmsg file exists, and to its return
\* when it does not.
C19_CacheGate ==
  /\ [][ (has_cache /\ ~ForceArg) =>
           /\ ~LogsaveStep /\ ~ReconcileStep /\ ~CopyStep
           /\ rotations' = 0 /\ rotate_calls' = 0
           /\ writes' = 0 /\ copies' = 0
           /\ \A p \in LogDir : fs'[p] = fs[p]
           /\ pc = "start" => pc' = "done" /\ exit_code' = 0 ]_vars
  /\ [][ ((~has_cache \/ ForceArg) /\ pc = "start") =>
           pc' = (IF fs[LAST_PMSG_FILE].exists THEN "drain" ELSE "done") ]_vars

\* A finished run with /cache mounted and the argument --force-persist-all:
\* the pmsg file and two records were there, none was drained, and last_log
\* still holds what it held.
C19_Witness ==
  /\ pc = "done" /\ exit_code = 0
  /\ has_cache
  /\ argv = << "--force-persist-all" >>
  /\ fs[LAST_PMSG_FILE].exists
  /\ Len(records) = 2 /\ idx = 1
  /\ records[1] = [name |-> "recovery/last_log", buf |-> <<1>>]
  /\ fs[LAST_LOG_FILE] = File(<<0, 1>>)
  /\ ~fs[LAST_INSTALL_FILE_IN_CACHE].exists

\* --------------------------------------------------------------------- C20
\* C20: every call of compare_file returns, in particular on two existing
\* files of the same non-zero size, longer than one chunk or not, identical
\* or not; while the loop runs both offsets are equal and never exceed the
\* file size, so the loop body is passed finitely often.
C20_ComparatorTerminates ==
  /\ <>(lp_pc = "returned")
  /\ (lp_pc = "loop" /\ lp_remain > 0) ~> (lp_pc = "returned")
  /\ [](lp_pc = "loop" =>
          /\ lp_off1 = lp_off2
          /\ lp_off1 <= lp_remain
          /\ lp_remain = Len(fs[LAST_KMSG_FILE].data)
          /\ lp_remain = Len(fs[LAST_CONSOLE_FILE].data))

\* The comparator has returned from inside the loop on two identical files
\* longer than one chunk, after reading each of them to its end.
C20_Witness ==
  /\ lp_pc = "returned"
  /\ ~lp_result
  /\ fs[LAST_KMSG_FILE].exists
  /\ fs[LAST_CONSOLE_FILE] = fs[LAST_KMSG_FILE]
  /\ Len(fs[LAST_KMSG_FILE].data) > BufSize
  /\ lp_off1 >= BufSize
  /\ lp_remain = Len(fs[LAST_KMSG_FILE].data)

====
